---- MODULE Spec2Model ----
(***************************************************************************)
(* A model of httpstaticserver.go: the access-policy resolver              *)
(* (readAccessConf, canAccess, canUpload, canDelete), the search index     *)
(* (makeIndex, findIndex), the listing handler (hJSONList, deepPath) and   *)
(* the mutation handlers (hUpload, hDelete).                               *)
(*                                                                         *)
(* A Go string is a sequence of one-character strings, a file name is a    *)
(* string, and a path is a sequence of file names (<<>> is the root).      *)
(***************************************************************************)
EXTENDS Integers, Sequences, FiniteSets, TLC

----------------------------------------------------------------------------
\* Bounds of the model.

\* longest search text drawn for findIndex
MaxQueryLen == 4
\* deepest chain of single-child directories drawn for deepPath
MaxChain == 7
\* how many times the background loop runs makeIndex in a behaviour
MaxBuilds == 2
\* how many index entries past the result cap the large indexes hold
MaxOver == 1

\* hJSONList: "if len(results) > 50 { results = results[:50] }"
MaxResults == 50
\* deepPath: "maxDepth := 5"
maxDepth == 5

----------------------------------------------------------------------------
\* Strings.

\* the characters of the model, in byte order
Ascii ==
    << "\t", " ", "-", ".", "/",
       "0", "1", "2", "3", "4", "5", "6", "7", "8", "9", "?",
       "A", "B", "C", "D", "E", "F", "G", "H", "I", "J", "K", "L", "M",
       "N", "O", "P", "Q", "R", "S", "T", "U", "V", "W", "X", "Y", "Z",
       "a", "b", "c", "d", "e", "f", "g", "h", "i", "j", "k", "l", "m",
       "n", "o", "p", "q", "r", "s", "t", "u", "v", "w", "x", "y", "z" >>

Rank(c) == CHOOSE i \in 1..Len(Ascii) : Ascii[i] = c

\* unicode.IsSpace, on the characters of the model
IsSpace(c) == c \in {"\t", " "}

IsUpper(c) == Rank(c) >= Rank("A") /\ Rank(c) <= Rank("Z")

\* unicode.ToLower, on the characters of the model
LowerOf ==
    [c \in {Ascii[i] : i \in 1..Len(Ascii)} |->
        IF IsUpper(c) THEN Ascii[Rank(c) + 26] ELSE c]

\* strings.ToLower
ToLower(s) == [i \in 1..Len(s) |-> LowerOf[s[i]]]

\* strings.HasPrefix (filepath.HasPrefix is the same test)
HasPrefix(s, prefix) ==
    /\ Len(prefix) <= Len(s)
    /\ SubSeq(s, 1, Len(prefix)) = prefix

\* strings.Contains
Contains(s, substr) ==
    \E i \in 0..(Len(s) - Len(substr)) : SubSeq(s, i + 1, i + Len(substr)) = substr

\* strings.Fields: the maximal runs of non-space characters, left to right
RECURSIVE FieldsFrom(_, _, _)
FieldsFrom(s, i, cur) ==
    IF i > Len(s)
    THEN IF cur = <<>> THEN <<>> ELSE <<cur>>
    ELSE IF IsSpace(s[i])
         THEN (IF cur = <<>> THEN <<>> ELSE <<cur>>) \o FieldsFrom(s, i + 1, <<>>)
         ELSE FieldsFrom(s, i + 1, Append(cur, s[i]))

Fields(s) == FieldsFrom(s, 1, <<>>)

\* byte-wise string order, as sort.Strings uses it
RECURSIVE StrLess(_, _)
StrLess(a, b) ==
    IF b = <<>> THEN FALSE
    ELSE IF a = <<>> THEN TRUE
    ELSE IF a[1] # b[1] THEN Rank(a[1]) < Rank(b[1])
    ELSE StrLess(Tail(a), Tail(b))

RECURSIVE SortStrings(_)
SortStrings(S) ==
    IF S = {} THEN <<>>
    ELSE LET m == CHOOSE x \in S : \A y \in S : x = y \/ StrLess(x, y)
         IN  <<m>> \o SortStrings(S \ {m})

\* filepath.Join / filepath.ToSlash of a relative path: the names joined by "/"
RECURSIVE JoinSlash(_)
JoinSlash(p) ==
    IF p = <<>> THEN <<>>
    ELSE IF Len(p) = 1 THEN p[1]
    ELSE p[1] \o <<"/">> \o JoinSlash(Tail(p))

\* all strings over the characters cs of length at most n
RECURSIVE StringsUpTo(_, _)
StringsUpTo(cs, n) ==
    IF n = 0 THEN {<<>>}
    ELSE LET shorter == StringsUpTo(cs, n - 1)
         IN  shorter \cup {Append(s, c) : s \in shorter, c \in cs}

----------------------------------------------------------------------------
\* State.

VARIABLES
    fs,        \* the tree under s.Root: path -> [kind, err], existing entries only
    ghs,       \* the .ghs.yml sidecars: directory path -> the file's content
    sUpload,   \* s.Upload, the process-wide upload flag
    heap,      \* the backing arrays makeIndex has built, oldest first
    indexes,   \* s.indexes, a slice header: [ptr, len] (ptr 0 is the nil slice)
    mk,        \* the background goroutine running makeIndex
    rd,        \* a request goroutine running findIndex
    reCache,   \* the package variable reCache: pattern -> compiled pattern or nil
    compiles,  \* how often regexp.Compile has run, per pattern
    ca,        \* the request goroutines running canAccess
    crashed,   \* the runtime has stopped the process (fatal error)
    dp,        \* a call of deepPath
    walkOld,   \* the toolchain's filepath.Walk returns SkipDir for the root as it is
    resp       \* what the last finished handler or call was given and answered

vars == << fs, ghs, sUpload, heap, indexes, mk, rd, reCache, compiles, ca,
           crashed, dp, walkOld, resp >>

fsVars == << fs, ghs, sUpload >>
indexVars == << heap, indexes, mk, rd, walkOld >>
cacheVars == << reCache, compiles, ca, crashed >>

----------------------------------------------------------------------------
\* The filesystem.

Root == <<>>

\* filepath.Dir of a cleaned relative path
Dir(p) == IF p = <<>> THEN <<>> ELSE SubSeq(p, 1, Len(p) - 1)

\* filepath.Base
Base(p) == p[Len(p)]

GhsName == << ".", "g", "h", "s", ".", "y", "m", "l" >>

FileNode == [kind |-> "file", err |-> "none"]
DirNode == [kind |-> "dir", err |-> "none"]

\* os.Stat succeeds and the mode is regular
isFile(p) ==
    \/ /\ p \in DOMAIN fs
       /\ fs[p].kind = "file"
       /\ fs[p].err # "lstat"
    \/ /\ p # <<>>
       /\ Base(p) = GhsName
       /\ Dir(p) \in DOMAIN ghs

\* os.Stat succeeds and the mode is a directory
isDir(p) ==
    /\ p \in DOMAIN fs
    /\ fs[p].kind = "dir"
    /\ fs[p].err # "lstat"

\* the names in directory p, the sidecar file among them
ChildNames(p) ==
    {Base(q) : q \in {r \in DOMAIN fs : r # <<>> /\ Dir(r) = p}}
        \cup (IF p \in DOMAIN ghs THEN {GhsName} ELSE {})

\* ioutil.ReadDir and filepath's readDirNames: the sorted names, or an error
readDirNamesFails(p) == p \notin DOMAIN fs \/ fs[p].kind # "dir" \/ fs[p].err # "none"

ReadDirFails(p) ==
    \/ readDirNamesFails(p)
    \/ \E q \in DOMAIN fs : q # <<>> /\ Dir(q) = p /\ fs[q].err = "lstat"

ReadDir(p) == SortStrings(ChildNames(p))

\* whether the entry named by path q is a directory (os.FileInfo.IsDir)
InfoIsDir(q) == q \in DOMAIN fs /\ fs[q].kind = "dir"

----------------------------------------------------------------------------
\* Access policies.

\* session.Values["user"] is nil, or store.Get failed
NoUser == "-"

\* a key of a sidecar: absent, ill-typed, or set to a value of the field's type
AbsentFlag == [tag |-> "absent", val |-> FALSE]
IllTypedFlag == [tag |-> "bad", val |-> FALSE]
AbsentList == [tag |-> "absent", val |-> <<>>]
IllTypedList == [tag |-> "bad", val |-> <<>>]
Given(v) == [tag |-> "set", val |-> v]

\* A sidecar file. state: "ok" (YAML that parses), "syntax" (it does not) or
\* "unreadable" (ioutil.ReadFile fails with something other than not-exist).
\* A key is absent, set to a value of the field's type, or ill-typed.
Sidecar(state, upload, delete, users, accessTables) ==
    [state |-> state, upload |-> upload, delete |-> delete,
     users |-> users, accessTables |-> accessTables]

\* defaultAccessConf
defaultAccessConf ==
    [Upload |-> sUpload, Delete |-> FALSE, Users |-> <<>>, AccessTables |-> <<>>]

\* a variant of yamlUnmarshal with a slip: "users" is appended to the inherited list
yamlUnmarshal_appendUsers(data, ac) ==
    IF data.state # "ok" THEN ac
    ELSE [Upload |-> IF data.upload.tag = "set" THEN data.upload.val ELSE ac.Upload,
          Delete |-> IF data.delete.tag = "set" THEN data.delete.val ELSE ac.Delete,
          Users |-> IF data.users.tag = "set" THEN ac.Users \o data.users.val
                    ELSE ac.Users,
          AccessTables |-> IF data.accessTables.tag = "set" THEN data.accessTables.val
                           ELSE ac.AccessTables]

\* data, err := ioutil.ReadFile(cfgFile); err = yaml.Unmarshal(data, &ac), both
\* errors only logged. An unreadable file leaves data empty and a document that
\* does not parse decodes nothing; otherwise the decoder assigns, in place, every
\* key whose value has the field's type and skips the others.
yamlUnmarshal(data, ac) ==
    IF data.state # "ok" THEN ac
    ELSE [Upload |-> IF data.upload.tag = "set" THEN data.upload.val ELSE ac.Upload,
          Delete |-> IF data.delete.tag = "set" THEN data.delete.val ELSE ac.Delete,
          Users |-> IF data.users.tag = "set" THEN data.users.val ELSE ac.Users,
          AccessTables |-> IF data.accessTables.tag = "set" THEN data.accessTables.val
                           ELSE ac.AccessTables]

\* readAccessConf
RECURSIVE readAccessConf(_)
readAccessConf(requestPath) ==
    LET ac == IF requestPath = <<>> THEN defaultAccessConf
              ELSE readAccessConf(Dir(requestPath))
        relPath == IF isFile(requestPath) THEN Dir(requestPath) ELSE requestPath
    IN  IF relPath \notin DOMAIN ghs THEN ac
        ELSE yamlUnmarshal(ghs[relPath], ac)

\* the loop over c.Users of canDelete and canUpload: the index of the first rule
\* whose Email is the user's, or 0
RECURSIVE userRule(_, _, _)
userRule(users, email, i) ==
    IF i > Len(users) THEN 0
    ELSE IF users[i].Email = email THEN i
    ELSE userRule(users, email, i + 1)

\* a variant of canDelete with a slip: the policy's flag wins over the user's rule
canDelete_defaultFirst(c, user) ==
    IF c.Delete THEN TRUE
    ELSE IF user = NoUser THEN c.Delete
    ELSE LET i == userRule(c.Users, user, 1)
         IN  IF i # 0 THEN c.Users[i].Delete ELSE c.Delete

\* canDelete
canDelete(c, user) ==
    IF user = NoUser THEN c.Delete
    ELSE LET i == userRule(c.Users, user, 1)
         IN  IF i # 0 THEN c.Users[i].Delete ELSE c.Delete

\* canUpload
canUpload(c, user) ==
    IF user = NoUser THEN c.Upload
    ELSE LET i == userRule(c.Users, user, 1)
         IN  IF i # 0 THEN c.Users[i].Upload ELSE c.Upload

----------------------------------------------------------------------------
\* Patterns. regexp.Compile and MatchString on the patterns of the model.

PatSecret == "\\.secret$"
PatAll == ".*"
PatBad == "("
PatA == "^a"
Patterns == {PatSecret, PatAll, PatBad, PatA}

SecretSuffix == << ".", "s", "e", "c", "r", "e", "t" >>

\* regexp.Compile: the compiled pattern, or nil for a pattern that does not compile
regexpCompile(pattern) == IF pattern = PatBad THEN "nil" ELSE pattern

\* (*Regexp).MatchString
MatchString(pattern, name) ==
    CASE pattern = PatSecret ->
            /\ Len(name) >= Len(SecretSuffix)
            /\ SubSeq(name, Len(name) - Len(SecretSuffix) + 1, Len(name)) = SecretSuffix
      [] pattern = PatAll -> TRUE
      [] pattern = PatA -> HasPrefix(name, <<"a">>)
      [] OTHER -> FALSE

\* canAccess run alone from table i on: [ret, cache, compiled], compiled being the
\* patterns it handed to regexp.Compile, in order
RECURSIVE canAccessFrom(_, _, _, _, _)
canAccessFrom(tables, fileName, i, cache, compiled) ==
    IF i > Len(tables) THEN [ret |-> TRUE, cache |-> cache, compiled |-> compiled]
    ELSE LET regex == tables[i].Regex
             ok == regex \in DOMAIN cache
             pattern == IF ok THEN cache[regex] ELSE regexpCompile(regex)
             cache2 == IF ok THEN cache
                       ELSE [r \in DOMAIN cache \cup {regex} |->
                                IF r = regex THEN pattern ELSE cache[r]]
             compiled2 == IF ok THEN compiled ELSE Append(compiled, regex)
         IN  IF pattern = "nil"
             THEN canAccessFrom(tables, fileName, i + 1, cache2, compiled2)
             ELSE IF MatchString(pattern, fileName)
                  THEN [ret |-> tables[i].Allow, cache |-> cache2, compiled |-> compiled2]
                  ELSE canAccessFrom(tables, fileName, i + 1, cache2, compiled2)

canAccessRun(c, fileName, cache) == canAccessFrom(c.AccessTables, fileName, 1, cache, <<>>)

----------------------------------------------------------------------------
\* The search index.

\* IndexFileItem: Path, and Info.Name() (sizes and times are not modelled)
Item(p) == [Path |-> JoinSlash(p), Name |-> Base(p)]

NodeKind(q) == IF q \in DOMAIN fs THEN fs[q].kind ELSE "file"
NodeErr(q) == IF q \in DOMAIN fs THEN fs[q].err ELSE "none"

\* a variant of walkFnRet with a slip: the error is returned ("// return err")
walkFnRet_returnErr(hasErr) == IF hasErr THEN "err" ELSE "nil"

\* what the function handed to filepath.Walk returns: SkipDir on an error, else nil
walkFnRet(hasErr) == IF hasErr THEN "SkipDir" ELSE "nil"

\* filepath.Walk's walk with that function: [idx, err], idx being the local
\* variable indexes and err what walk returns
RECURSIVE walk(_, _)
RECURSIVE walkNames(_, _, _, _)
walk(path, acc) ==
    IF NodeKind(path) # "dir"
    THEN [idx |-> Append(acc, Item(path)), err |-> walkFnRet(FALSE)]
    ELSE LET failed == readDirNamesFails(path)
             err1 == walkFnRet(failed)
         IN  IF failed \/ err1 # "nil" THEN [idx |-> acc, err |-> err1]
             ELSE walkNames(path, ReadDir(path), 1, acc)

walkNames(path, names, i, acc) ==
    IF i > Len(names) THEN [idx |-> acc, err |-> "nil"]
    ELSE LET filename == Append(path, names[i])
         IN  IF NodeErr(filename) = "lstat"
             THEN LET e == walkFnRet(TRUE)
                  IN  IF e # "nil" /\ e # "SkipDir" THEN [idx |-> acc, err |-> e]
                      ELSE walkNames(path, names, i + 1, acc)
             ELSE LET r == walk(filename, acc)
                  IN  IF r.err # "nil" /\ (NodeKind(filename) # "dir" \/ r.err # "SkipDir")
                      THEN r
                      ELSE walkNames(path, names, i + 1, r.idx)

\* filepath.Walk(s.Root, ...): os.Lstat of the root, then walk
Walk ==
    LET r == IF Root \notin DOMAIN fs \/ fs[Root].err = "lstat"
             THEN [idx |-> <<>>, err |-> walkFnRet(TRUE)]
             ELSE walk(Root, <<>>)
    IN  [idx |-> r.idx,
         err |-> IF r.err = "SkipDir" /\ ~walkOld THEN "nil" ELSE r.err]

\* the zero IndexFileItem, and what a read outside a backing array may find
ZeroItem == [Path |-> <<>>, Name |-> <<>>]
JunkItems == {ZeroItem, [Path |-> <<"?">>, Name |-> <<"?">>]}

\* the slice a goroutine holding header h sees, junk standing for every element
\* outside the backing array
Observed(h, junk) ==
    [i \in 1..h.len |->
        IF h.ptr # 0 /\ i <= Len(heap[h.ptr]) THEN heap[h.ptr][i] ELSE junk]

\* a variant of matchKeyword with a slip: the keyword is not lower-cased
matchKeyword_keepCase(itemPath, keyword, needContains) ==
    needContains = Contains(ToLower(itemPath), keyword)

\* findIndex, line 542
matchKeyword(itemPath, keyword, needContains) ==
    needContains = Contains(ToLower(itemPath), ToLower(keyword))

\* findIndex: the loop over strings.Fields(text), from keyword i on
RECURSIVE keywordLoop(_, _, _)
keywordLoop(itemPath, keywords, i) ==
    IF i > Len(keywords) THEN TRUE
    ELSE LET needContains == ~HasPrefix(keywords[i], <<"-">>)
             keyword == IF needContains THEN keywords[i] ELSE Tail(keywords[i])
         IN  IF keyword = <<>> THEN keywordLoop(itemPath, keywords, i + 1)
             ELSE IF ~matchKeyword(itemPath, keyword, needContains) THEN FALSE
             ELSE keywordLoop(itemPath, keywords, i + 1)

\* findIndex over the slice items
findIndex(items, text) ==
    LET keywords == Fields(text)
    IN  SelectSeq(items, LAMBDA item : keywordLoop(item.Path, keywords, 1))

----------------------------------------------------------------------------
\* The listing.

\* one iteration of deepPath's loop on the directory name under basedir:
\* the name extended by the only child when that is a directory, else a break
deepPathIter(basedir, name) ==
    LET d == basedir \o name
        finfos == ReadDir(d)
    IN  IF ReadDirFails(d) \/ Len(finfos) # 1
        THEN [brk |-> TRUE, name |-> name]
        ELSE IF InfoIsDir(Append(d, finfos[1]))
             THEN [brk |-> FALSE, name |-> Append(name, finfos[1])]
             ELSE [brk |-> TRUE, name |-> name]

\* deepPath's loop condition (isDir is never cleared)
deepPathCond(depth) == depth <= maxDepth

\* deepPath, from iteration depth on
RECURSIVE deepPathLoop(_, _, _)
deepPathLoop(basedir, name, depth) ==
    IF ~deepPathCond(depth) THEN name
    ELSE LET it == deepPathIter(basedir, name)
         IN  IF it.brk THEN name ELSE deepPathLoop(basedir, it.name, depth + 1)

deepPath(basedir, name) == deepPathLoop(basedir, <<name>>, 0)

\* the "/"-separated elements of a string
RECURSIVE SplitFrom(_, _, _)
SplitFrom(s, i, cur) ==
    IF i > Len(s) THEN (IF cur = <<>> THEN <<>> ELSE <<cur>>)
    ELSE IF s[i] = "/"
         THEN (IF cur = <<>> THEN <<>> ELSE <<cur>>) \o SplitFrom(s, i + 1, <<>>)
         ELSE SplitFrom(s, i + 1, Append(cur, s[i]))

RECURSIVE CommonLen(_, _)
CommonLen(a, b) ==
    IF a = <<>> \/ b = <<>> \/ a[1] # b[1] THEN 0
    ELSE 1 + CommonLen(Tail(a), Tail(b))

\* filepath.ToSlash(filepath.Rel(basepath, targpath)) of two relative paths
Rel(basepath, targpath) ==
    LET b == SplitFrom(basepath, 1, <<>>)
        t == SplitFrom(targpath, 1, <<>>)
        k == CommonLen(b, t)
        ups == [i \in 1..(Len(b) - k) |-> <<".", ".">>]
        r == ups \o SubSeq(t, k + 1, Len(t))
    IN  IF r = <<>> THEN <<".">> ELSE JoinSlash(r)

\* hJSONList, lines 447-456: the keys of fileInfoMap for a search, as index items
searchCandidates(items, requestPath, search) ==
    LET found == findIndex(items, search)
        results == IF Len(found) > MaxResults THEN SubSeq(found, 1, MaxResults) ELSE found
    IN  {results[i] : i \in {j \in 1..Len(results) : HasPrefix(results[j].Path, requestPath)}}

\* the cache after canAccess has run on each of the names: the handler ranges
\* over a map, in no determined order, and every pattern a call looks up and
\* does not find is compiled and inserted
cacheAfter(c, names, cache) ==
    LET lookedUp == UNION {{canAccessRun(c, n, <<>>).compiled[i] :
                              i \in 1..Len(canAccessRun(c, n, <<>>).compiled)} :
                           n \in names}
    IN  [r \in DOMAIN cache \cup lookedUp |->
            IF r \in DOMAIN cache THEN cache[r] ELSE regexpCompile(r)]

\* hJSONList. The handler fills a map and ranges over it, so the order of
\* "files" is not determined: files is the set of the entries answered.
hJSONListResp(requestPath, search, user) ==
    LET rp == JoinSlash(requestPath)
        conf == readAccessConf(requestPath)
        auth == [conf EXCEPT !.Upload = canUpload(conf, user),
                             !.Delete = canDelete(conf, user)]
        found == searchCandidates(Observed(indexes, ZeroItem), rp, search)
        listed == {Append(requestPath, ReadDir(requestPath)[i]) :
                      i \in 1..Len(ReadDir(requestPath))}
        fromSearch == {[Name |-> Rel(rp, it.Path), Path |-> it.Path, Type |-> "file"] :
                          it \in {x \in found : canAccessRun(auth, x.Name, <<>>).ret}}
        fromDir == {IF InfoIsDir(q)
                    THEN LET name == deepPath(requestPath, Base(q))
                         IN  [Name |-> JoinSlash(name),
                              Path |-> JoinSlash(requestPath \o name),
                              Type |-> "dir"]
                    ELSE [Name |-> Base(q), Path |-> JoinSlash(q), Type |-> "file"] :
                        q \in {x \in listed : canAccessRun(auth, Base(x), <<>>).ret}}
        names == IF search # <<>> THEN {x.Name : x \in found}
                 ELSE {ReadDir(requestPath)[i] : i \in 1..Len(ReadDir(requestPath))}
    IN  IF search = <<>> /\ ReadDirFails(requestPath)
        THEN [op |-> "hJSONList", requestPath |-> requestPath, search |-> search,
              user |-> user, status |-> 500, candidates |-> {}, files |-> {},
              auth |-> auth, cache |-> reCache]
        ELSE [op |-> "hJSONList", requestPath |-> requestPath, search |-> search,
              user |-> user, status |-> 200,
              candidates |-> IF search # <<>> THEN {x.Path : x \in found}
                             ELSE {JoinSlash(q) : q \in listed},
              files |-> IF search # <<>> THEN fromSearch ELSE fromDir,
              auth |-> auth,
              cache |-> cacheAfter(auth, names, reCache)]

----------------------------------------------------------------------------
\* The handlers that change the tree.

\* os.Remove succeeds: the entry exists and is not a directory with entries
canRemove(path) ==
    /\ path \in DOMAIN fs
    /\ fs[path].kind = "dir" => ChildNames(path) = {}

\* os.Create succeeds: the directory exists and the target is not a directory
canCreate(dirpath, filename) ==
    /\ isDir(dirpath)
    /\ fs[dirpath].err = "none"
    /\ ~InfoIsDir(Append(dirpath, filename))

\* hDelete: the answer, and the tree after it
hDeleteResp(path, user) ==
    LET auth == readAccessConf(path)
    IN  IF ~canDelete(auth, user)
        THEN [op |-> "hDelete", path |-> path, user |-> user, status |-> 403,
              touched |-> {}]
        ELSE IF ~canRemove(path)
        THEN [op |-> "hDelete", path |-> path, user |-> user, status |-> 500,
              touched |-> {}]
        ELSE [op |-> "hDelete", path |-> path, user |-> user, status |-> 200,
              touched |-> {path}]

hDeleteFs(path, user) ==
    IF hDeleteResp(path, user).status = 200
    THEN [q \in DOMAIN fs \ {path} |-> fs[q]]
    ELSE fs

\* hUpload with one part named filename; formOk: the multipart form parses and
\* holds a file
hUploadResp(path, user, filename, formOk) ==
    LET auth == readAccessConf(path)
    IN  IF ~canUpload(auth, user)
        THEN [op |-> "hUpload", path |-> path, user |-> user, status |-> 403,
              touched |-> {}]
        ELSE IF ~formOk \/ ~canCreate(path, filename)
        THEN [op |-> "hUpload", path |-> path, user |-> user, status |-> 500,
              touched |-> {}]
        ELSE [op |-> "hUpload", path |-> path, user |-> user, status |-> 200,
              touched |-> {Append(path, filename)}]

hUploadFs(path, user, filename, formOk) ==
    IF hUploadResp(path, user, filename, formOk).status = 200
    THEN [q \in DOMAIN fs \cup {Append(path, filename)} |->
              IF q \in DOMAIN fs THEN fs[q] ELSE FileNode]
    ELSE fs

----------------------------------------------------------------------------
\* Initial values shared by the specifications.

NoResp == [op |-> "none"]
NilSlice == [ptr |-> 0, len |-> 0]
MkIdle == [pc |-> "sleep", local |-> NilSlice, err |-> "nil", builds |-> 0]
RdIdle == [pc |-> "idle", text |-> <<>>, ptr |-> 0, len |-> 0, seen |-> <<>>,
           ret |-> <<>>]
DpIdle == [pc |-> "idle", basedir |-> <<>>, name |-> <<>>, depth |-> 0]
CaIdle == [pc |-> "idle", tables |-> <<>>, fileName |-> <<>>, i |-> 0,
           pattern |-> "nil", ret |-> TRUE]
Procs == {1, 2}

InitIdle ==
    /\ heap = <<>>
    /\ indexes = NilSlice
    /\ mk = MkIdle
    /\ rd = RdIdle
    /\ reCache = <<>>
    /\ compiles = [p \in Patterns |-> 0]
    /\ ca = [p \in Procs |-> CaIdle]
    /\ crashed = FALSE
    /\ dp = DpIdle
    /\ walkOld = FALSE
    /\ resp = NoResp

----------------------------------------------------------------------------
\* SpecAuth: policy resolution and the gated handlers, one request at a time.

Alice == "alice"
Bob == "bob"
Users == {NoUser, Alice, Bob}

\* file names
na == <<"a">>
nb == <<"b">>
nf == <<"f">>
ng == <<"g">>
nn == <<"n">>
nx == <<"x">>

Rule(email, upload, delete) == [Email |-> email, Upload |-> upload, Delete |-> delete]
Table(regex, allow) == [Regex |-> regex, Allow |-> allow]

SidecarChoices ==
    { Sidecar("ok", Given(FALSE), AbsentFlag, AbsentList, AbsentList),
      Sidecar("ok", Given(TRUE), AbsentFlag, AbsentList, AbsentList),
      Sidecar("ok", AbsentFlag, Given(TRUE),
              Given(<<Rule(Alice, FALSE, FALSE)>>), AbsentList),
      Sidecar("ok", AbsentFlag, AbsentFlag,
              Given(<<Rule(Alice, TRUE, TRUE), Rule(Alice, FALSE, FALSE),
                      Rule(Bob, FALSE, TRUE)>>), AbsentList),
      Sidecar("ok", AbsentFlag, AbsentFlag, Given(<<>>),
              Given(<<Table(PatSecret, FALSE), Table(PatAll, TRUE)>>)),
      Sidecar("syntax", Given(TRUE), Given(TRUE), AbsentList, AbsentList),
      Sidecar("unreadable", Given(TRUE), Given(TRUE), AbsentList, AbsentList),
      Sidecar("ok", Given(TRUE), IllTypedFlag, AbsentList, AbsentList),
      Sidecar("ok", IllTypedFlag, AbsentFlag, IllTypedList, AbsentList) }

AuthTree ==
    ( <<>> :> DirNode ) @@ ( <<na>> :> DirNode ) @@ ( <<na, nb>> :> DirNode ) @@
    ( <<na, ng>> :> FileNode ) @@ ( <<nf>> :> FileNode )

ResolvePaths == { <<>>, <<na>>, <<na, nb>>, <<na, ng>>, <<nf>>, <<nx>> }
DeletePaths == { <<na, ng>>, <<nf>> }
UploadPaths == { <<na>> }
UploadNames == { ng, nn }

InitAuth ==
    /\ fs = AuthTree
    /\ \E dirs \in SUBSET { <<>>, <<na>> } : ghs \in [dirs -> SidecarChoices]
    /\ sUpload \in BOOLEAN
    /\ InitIdle

\* na request that only resolves the policy of its path
Resolve(path) ==
    /\ resp' = [op |-> "resolve", path |-> path, ac |-> readAccessConf(path)]
    /\ UNCHANGED << fsVars, indexVars, cacheVars, dp >>

HDelete(path, user) ==
    /\ resp' = hDeleteResp(path, user)
    /\ fs' = hDeleteFs(path, user)
    /\ UNCHANGED << ghs, sUpload, indexVars, cacheVars, dp >>

HUpload(path, user, filename, formOk) ==
    /\ resp' = hUploadResp(path, user, filename, formOk)
    /\ fs' = hUploadFs(path, user, filename, formOk)
    /\ UNCHANGED << ghs, sUpload, indexVars, cacheVars, dp >>

NextAuth ==
    \/ \E path \in ResolvePaths : Resolve(path)
    \/ \E path \in DeletePaths, user \in Users : HDelete(path, user)
    \/ \E path \in UploadPaths, user \in Users, filename \in UploadNames,
          formOk \in BOOLEAN : HUpload(path, user, filename, formOk)

SpecAuth == InitAuth /\ [][NextAuth]_vars

----------------------------------------------------------------------------
\* Claims on SpecAuth.

\* the directory whose sidecar belongs to a request path
OwnDir(path) == IF isFile(path) THEN Dir(path) ELSE path

WellFormed(sc) ==
    /\ sc.state = "ok"
    /\ \A t \in {sc.upload.tag, sc.delete.tag, sc.users.tag, sc.accessTables.tag} :
          t # "bad"

\* a sidecar laid over an inherited policy: a present field replaces, an absent
\* one inherits
Overlay(policy, sc) ==
    [Upload |-> IF sc.upload.tag = "absent" THEN policy.Upload ELSE sc.upload.val,
     Delete |-> IF sc.delete.tag = "absent" THEN policy.Delete ELSE sc.delete.val,
     Users |-> IF sc.users.tag = "absent" THEN policy.Users ELSE sc.users.val,
     AccessTables |-> IF sc.accessTables.tag = "absent" THEN policy.AccessTables
                      ELSE sc.accessTables.val]

\* the default policy overlaid by the sidecars of the first i+1 directories on
\* the way from the root to directory d
RECURSIVE Overlaid(_, _)
Overlaid(d, i) ==
    LET base == IF i = 0 THEN defaultAccessConf ELSE Overlaid(d, i - 1)
        dir == SubSeq(d, 1, i)
    IN  IF dir \in DOMAIN ghs THEN Overlay(base, ghs[dir]) ELSE base

SidecarsWellFormed(d) ==
    \A i \in 0..Len(d) :
        SubSeq(d, 1, i) \in DOMAIN ghs => WellFormed(ghs[SubSeq(d, 1, i)])

\* C4: resolve(requestPath) is the process-wide default policy overlaid, root to
\* leaf, by the sidecar of every directory on the path (the containing directory
\* for a file), a present field replacing and an absent field inheriting; with
\* root sidecar {upload:false} and sidecar {upload:true} at /a, resolve("/a/b")
\* allows upload and resolve("/x") does not.
C4_ResolveIsOverlay ==
    resp.op = "resolve" =>
        LET d == OwnDir(resp.path)
        IN  /\ SidecarsWellFormed(d) => resp.ac = Overlaid(d, Len(d))
            /\ ( /\ <<>> \in DOMAIN ghs
                 /\ <<na>> \in DOMAIN ghs
                 /\ ghs[<<>>] = Sidecar("ok", Given(FALSE), AbsentFlag, AbsentList, AbsentList)
                 /\ ghs[<<na>>] = Sidecar("ok", Given(TRUE), AbsentFlag, AbsentList, AbsentList) )
               => /\ resp.path = <<na, nb>> => resp.ac.Upload
                  /\ resp.path = <<nx>> => ~resp.ac.Upload

\* a policy resolved through two sidecars, the deeper one replacing the users
\* the root one set
C4_Witness ==
    /\ resp.op = "resolve"
    /\ resp.path = <<na, nb>>
    /\ <<>> \in DOMAIN ghs /\ <<na>> \in DOMAIN ghs
    /\ WellFormed(ghs[<<>>]) /\ WellFormed(ghs[<<na>>])
    /\ ghs[<<>>].users.tag = "set" /\ ghs[<<na>>].users.tag = "set"
    /\ ghs[<<>>].users.val # ghs[<<na>>].users.val
    /\ resp.ac.Users = ghs[<<na>>].users.val

Malformed(sc) == ~WellFormed(sc)

\* C9: when the sidecar of a directory is malformed or unreadable, the policy
\* resolved at that level is exactly the parent-resolved policy.
C9_MalformedFallsBack ==
    resp.op = "resolve" =>
        LET d == OwnDir(resp.path)
        IN  (d \in DOMAIN ghs /\ Malformed(ghs[d])) =>
                resp.ac = IF d = <<>> THEN defaultAccessConf ELSE readAccessConf(Dir(d))

\* the decision of the claim on the policy resolved for the request of answer r:
\* the flag of the first override of the caller, else the policy's flag
Decision(r) ==
    LET policy == readAccessConf(r.path)
        own == {i \in 1..Len(policy.Users) : policy.Users[i].Email = r.user}
        first == CHOOSE i \in own : \A j \in own : i <= j
    IN  IF r.user # NoUser /\ own # {}
        THEN IF r.op = "hDelete" THEN policy.Users[first].Delete
             ELSE policy.Users[first].Upload
        ELSE IF r.op = "hDelete" THEN policy.Delete ELSE policy.Upload

\* C3: a DELETE removes, and a POST upload creates or writes, a file only if the
\* decision on the policy resolved for the request path is true; when it is
\* false the answer is Forbidden and the tree is unchanged.
C3_MutationsGated ==
    [][ resp'.op \in {"hDelete", "hUpload"} =>
          /\ (fs' # fs \/ resp'.touched # {}) => Decision(resp')
          /\ ~Decision(resp') =>
                (resp'.status = 403 /\ fs' = fs /\ resp'.touched = {}) ]_vars

\* a caller whose override allows a delete the policy's default forbids
C3_Witness ==
    /\ resp.op = "hDelete"
    /\ resp.status = 200
    /\ resp.user = Alice
    /\ resp.path \notin DOMAIN fs
    /\ ~readAccessConf(resp.path).Delete

----------------------------------------------------------------------------
\* SpecSearch: findIndex and the search branch of hJSONList over a built index.

Digits == << "0", "1", "2", "3", "4", "5", "6", "7", "8", "9" >>

\* the items of the first k files f00, f01, ... of directory dir, in walk order
Block(dir, k) ==
    [i \in 1..k |->
        LET name == << "f", Digits[((i - 1) \div 10) + 1], Digits[((i - 1) % 10) + 1] >>
        IN  [Path |-> dir \o <<"/">> \o name, Name |-> name]]

FileItem(dir, name) ==
    [Path |-> IF dir = <<>> THEN name ELSE dir \o <<"/">> \o name, Name |-> name]

Docs == << "d", "o", "c", "s" >>
NotesTxt == << "n", "o", "t", "e", "s", ".", "t", "x", "t" >>
ReadmeMd == << "r", "e", "a", "d", "m", "e", ".", "m", "d" >>
Src == << "s", "r", "c" >>
MainGo == << "m", "a", "i", "n", ".", "g", "o" >>

\* indexes as makeIndex leaves them: files only, in the order of the walk
SearchIndexes ==
    { << FileItem(Docs, NotesTxt), FileItem(Docs, ReadmeMd), FileItem(Src, MainGo) >>,
      << FileItem(<<>>, <<"-", "a">>), FileItem(<<>>, <<"A", "-", "F">>),
         FileItem(<<>>, <<"F", "a">>), FileItem(<<>>, <<"a">>),
         FileItem(<<>>, <<"a", "F">>) >>,
      << FileItem(<<"A">>, <<"a">>), FileItem(<<"a">>, <<"-", "F">>),
         FileItem(<<"a">>, <<"F">>), FileItem(<<"x">>, <<"a", "a">>) >>,
      Block(<<"a">>, MaxResults) \o Block(<<"x">>, MaxOver),
      Block(<<"a">>, 2) \o Block(<<"x">>, MaxResults + MaxOver) }

QueryChars == { "a", "F", "-", " ", "\t" }

\* "docs -notes"
DocsNotNotes == << "d", "o", "c", "s", " ", "-", "n", "o", "t", "e", "s" >>

FindTexts == StringsUpTo(QueryChars, MaxQueryLen) \cup {DocsNotNotes}
ListSearches == StringsUpTo(QueryChars, 1) \cup {DocsNotNotes, << "-", "x" >>}
ListPaths == { <<>>, <<na>>, <<nx>>, <<Docs>> }

InitSearch ==
    /\ fs = ( <<>> :> DirNode )
    /\ ghs = ( <<>> :> Sidecar("ok", AbsentFlag, AbsentFlag, AbsentList,
                               Given(<<Table(PatBad, FALSE), Table(PatSecret, FALSE)>>)) )
    /\ sUpload = FALSE
    /\ \E idx \in SearchIndexes :
          /\ heap = << idx >>
          /\ indexes = [ptr |-> 1, len |-> Len(idx)]
    /\ mk = MkIdle
    /\ rd = RdIdle
    /\ reCache = <<>>
    /\ compiles = [p \in Patterns |-> 0]
    /\ ca = [p \in Procs |-> CaIdle]
    /\ crashed = FALSE
    /\ dp = DpIdle
    /\ walkOld = FALSE
    /\ resp = NoResp

\* one call of findIndex, run alone (a behaviour of SpecSearch serves one request)
FindIndex(text) ==
    /\ resp.op = "none"
    /\ resp' = [op |-> "findIndex", text |-> text,
                ret |-> findIndex(Observed(indexes, ZeroItem), text)]
    /\ UNCHANGED << fsVars, indexVars, cacheVars, dp >>

\* one /-/json/ request, run alone
HJSONList(requestPath, search, user) ==
    LET r == hJSONListResp(requestPath, search, user)
    IN  /\ resp.op = "none"
        /\ resp' = r
        /\ reCache' = r.cache
        /\ compiles' = [p \in Patterns |->
                           IF p \in DOMAIN r.cache /\ p \notin DOMAIN reCache
                           THEN compiles[p] + 1 ELSE compiles[p]]
        /\ UNCHANGED << fsVars, indexVars, ca, crashed, dp >>

NextSearch ==
    \/ \E text \in FindTexts : FindIndex(text)
    \/ \E requestPath \in ListPaths, search \in ListSearches :
          HJSONList(requestPath, search, NoUser)

SpecSearch == InitSearch /\ [][NextSearch]_vars

----------------------------------------------------------------------------
\* Claims on SpecSearch.

\* the index a request reads when no build is storing s.indexes
Snapshot == Observed(indexes, ZeroItem)

\* the non-empty whitespace-separated tokens of a text
Tokens(text) ==
    { SubSeq(text, i, j) :
        <<i, j>> \in { <<i, j>> \in (1..Len(text)) \X (1..Len(text)) :
                        /\ i <= j
                        /\ \A k \in i..j : ~IsSpace(text[k])
                        /\ i = 1 \/ IsSpace(text[i - 1])
                        /\ j = Len(text) \/ IsSpace(text[j + 1]) } }

TokenSucceeds(token, path) ==
    IF token[1] = "-"
    THEN Len(token) = 1 \/ ~Contains(ToLower(path), ToLower(Tail(token)))
    ELSE Contains(ToLower(path), ToLower(token))

\* C6: search(query) returns exactly the snapshot entries for which every
\* non-empty whitespace-separated token succeeds, in snapshot order: a token
\* with the prefix "-" succeeds iff the lower-cased path does not contain the
\* lower-cased remainder, another token iff the lower-cased path contains the
\* lower-cased token, and a token that is empty after the "-" is ignored.
C6_SearchIsTokenMatch ==
    resp.op = "findIndex" =>
        resp.ret = SelectSeq(Snapshot,
                             LAMBDA item : \A t \in Tokens(resp.text) :
                                              TokenSucceeds(t, item.Path))

\* a search with a negative token and an upper-case letter that keeps some
\* entries and drops others
C6_Witness ==
    /\ resp.op = "findIndex"
    /\ \E t \in Tokens(resp.text) : t[1] = "-" /\ Len(t) > 1
    /\ \E t \in Tokens(resp.text) : "F" \in {t[i] : i \in 1..Len(t)}
    /\ Len(resp.ret) > 0
    /\ Len(resp.ret) < Len(Snapshot)

Min(m, k) == IF m <= k THEN m ELSE k

\* C7: for a listing request with a non-empty query, the candidate entries are
\* the first min(50, n) of the n index matches whose path has requestPath as a
\* prefix, in snapshot order, and never more than 50.
C7_FirstFiftyWithPrefix ==
    (resp.op = "hJSONList" /\ resp.search # <<>>) =>
        LET rp == JoinSlash(resp.requestPath)
            withPrefix == SelectSeq(findIndex(Snapshot, resp.search),
                                    LAMBDA item : HasPrefix(item.Path, rp))
        IN  /\ resp.candidates =
                  {withPrefix[i].Path : i \in 1..Min(MaxResults, Len(withPrefix))}
            /\ Cardinality(resp.candidates) <= MaxResults

----------------------------------------------------------------------------
\* SpecFold: deepPath, iteration by iteration, on chains of directories.

nc == <<"c">>
nd == <<"d">>
ne == <<"e">>

\* the path d/c/.../c with k names after d
ChainPath(k) == <<nd>> \o [i \in 1..k |-> nc]

\* the directory d holding a chain of k single-child directories, whose last
\* directory is empty, holds one file, holds two directories, or cannot be read
ChainTree(k, last) ==
    LET chain == {ChainPath(i) : i \in 0..k}
        extra == CASE last = "file" -> {Append(ChainPath(k), nf)}
                   [] last = "two" -> {Append(ChainPath(k), nc), Append(ChainPath(k), ne)}
                   [] OTHER -> {}
    IN  [q \in {<<>>} \cup chain \cup extra |->
            IF q = ChainPath(k) /\ last = "unreadable" THEN [kind |-> "dir", err |-> "read"]
            ELSE IF last = "file" /\ q \in extra THEN FileNode
            ELSE DirNode]

ChainEnds == {"empty", "file", "two", "unreadable"}

InitFold ==
    /\ \E k \in 0..MaxChain, last \in ChainEnds : fs = ChainTree(k, last)
    /\ ghs = <<>>
    /\ sUpload = FALSE
    /\ InitIdle

\* hJSONList, line 487: deepPath(localPath, info.Name()) for the entry d of the root
DeepPathCall ==
    /\ dp.pc = "idle"
    /\ dp' = [pc |-> "loop", basedir |-> <<>>, name |-> <<nd>>, depth |-> 0]
    /\ UNCHANGED << fsVars, indexVars, cacheVars, resp >>

\* one test of the loop condition and, when it holds, one iteration
DeepPathStep ==
    /\ dp.pc = "loop"
    /\ LET it == deepPathIter(dp.basedir, dp.name)
       IN  dp' = IF ~deepPathCond(dp.depth) \/ it.brk
                 THEN [dp EXCEPT !.pc = "returned"]
                 ELSE [dp EXCEPT !.name = it.name, !.depth = dp.depth + 1]
    /\ UNCHANGED << fsVars, indexVars, cacheVars, resp >>

NextFold ==
    \/ DeepPathCall
    \/ DeepPathStep
    \/ HJSONList(<<>>, <<>>, NoUser)

SpecFold == InitFold /\ [][NextFold]_vars

----------------------------------------------------------------------------
\* Claims on SpecFold.

\* a directory that can be read and holds exactly one entry, a directory
FoldsOn(d) ==
    /\ d \in DOMAIN fs /\ fs[d].kind = "dir" /\ fs[d].err = "none"
    /\ Cardinality({q \in DOMAIN fs : q # <<>> /\ Dir(q) = d}) = 1
    /\ \A q \in DOMAIN fs : (q # <<>> /\ Dir(q) = d) => fs[q].kind = "dir"

\* how many directories below d the folding may descend
RECURSIVE Hops(_)
Hops(d) ==
    IF FoldsOn(d)
    THEN 1 + Hops(CHOOSE q \in DOMAIN fs : q # <<>> /\ Dir(q) = d)
    ELSE 0

\* C8: folding descends while the current directory has exactly one child and
\* that child is a directory, extending the displayed name by the child's name
\* at each hop, and performs at most 5 hops: the displayed name has at most 5
\* path components after the original directory name.
C8_FoldAtMostFiveHops ==
    dp.pc = "returned" =>
        /\ Len(dp.name) - 1 <= 5
        /\ dp.name = ChainPath(Min(5, Hops(<<nd>>)))

\* a fold that stopped early, at a directory with two children
C8_Witness ==
    /\ dp.pc = "returned"
    /\ Len(dp.name) = 3
    /\ ~FoldsOn(dp.name)
    /\ Cardinality({q \in DOMAIN fs : q # <<>> /\ Dir(q) = dp.name}) = 2

----------------------------------------------------------------------------
\* SpecWalk: makeIndex, run alone, on trees with entries that fail.

nh == <<"h">>
nk == <<"k">>

WalkFiles == { <<na, ng>>, <<na, nh>>, <<nb, nk>>, <<nf>> }
WalkDirs == { <<>>, <<na>>, <<nb>> }

\* a tree from the state of each file (absent, ok, or failing lstat) and of each
\* directory (ok, failing lstat, or failing to be read)
WalkTree(files, dirs) ==
    [q \in WalkDirs \cup {r \in WalkFiles : files[r] # "absent"} |->
        IF q \in WalkDirs
        THEN [kind |-> "dir", err |-> dirs[q]]
        ELSE [kind |-> "file", err |-> files[q]]]

InitWalk ==
    /\ \E files \in [WalkFiles -> {"absent", "none", "lstat"}],
          dirs \in [WalkDirs -> {"none", "lstat", "read"}] :
          fs = WalkTree(files, dirs)
    /\ ghs = ( <<na>> :> Sidecar("ok", Given(TRUE), AbsentFlag, AbsentList, AbsentList) )
    /\ sUpload = FALSE
    /\ heap = <<>>
    /\ indexes = NilSlice
    /\ mk = MkIdle
    /\ rd = RdIdle
    /\ reCache = <<>>
    /\ compiles = [p \in Patterns |-> 0]
    /\ ca = [p \in Procs |-> CaIdle]
    /\ crashed = FALSE
    /\ dp = DpIdle
    /\ walkOld \in BOOLEAN
    /\ resp = NoResp

\* makeIndex from its first line to its return, no request running
MakeIndex ==
    LET w == Walk
        built == [ptr |-> Len(heap) + 1, len |-> Len(w.idx)]
    IN  /\ mk.pc = "sleep"
        /\ mk.builds < MaxBuilds
        /\ heap' = Append(heap, w.idx)
        /\ indexes' = built
        /\ mk' = [mk EXCEPT !.local = built, !.err = w.err, !.builds = mk.builds + 1]
        /\ resp' = [op |-> "makeIndex", err |-> w.err]
        /\ UNCHANGED << fsVars, rd, walkOld, cacheVars, dp >>

NextWalk == MakeIndex

SpecWalk == InitWalk /\ [][NextWalk]_vars

----------------------------------------------------------------------------
\* Claims on SpecWalk.

\* the paths of the regular files of the tree, sidecar files among them
RegularFiles ==
    {q \in DOMAIN fs : fs[q].kind = "file"} \cup {Append(d, GhsName) : d \in DOMAIN ghs}

\* no entry on the way from the root to q fails
NoWalkError(q) ==
    \A i \in 0..Len(q) :
        SubSeq(q, 1, i) \in DOMAIN fs => fs[SubSeq(q, 1, i)].err = "none"

RootOpens == Root \in DOMAIN fs /\ fs[Root].err = "none"

\* C10: an index build publishes a snapshot with one entry for every regular
\* file reachable under the root without a walk error and no entry for a
\* directory; a walk error removes only its entry or subtree, and the build
\* reports a failure only when the root itself cannot be opened.
C10_BuildSkipsOnlyFailures ==
    resp.op = "makeIndex" =>
        LET want == {JoinSlash(q) : q \in {r \in RegularFiles : NoWalkError(r)}}
        IN  /\ \A path \in want :
                  Cardinality({i \in 1..Len(Snapshot) : Snapshot[i].Path = path}) = 1
            /\ \A i \in 1..Len(Snapshot) : Snapshot[i].Path \in want
            /\ resp.err # "nil" => ~RootOpens

\* a build over a tree where a directory cannot be read and a file fails lstat,
\* which still indexes files that sort after both
C10_Witness ==
    /\ resp.op = "makeIndex"
    /\ fs[<<na>>].err = "read"
    /\ <<nb, nk>> \in DOMAIN fs /\ fs[<<nb>>].err = "none" /\ fs[<<nb, nk>>].err = "lstat"
    /\ <<nf>> \in DOMAIN fs /\ fs[<<nf>>].err = "none"
    /\ Len(Snapshot) = 1
    /\ Snapshot[1].Path = nf

----------------------------------------------------------------------------
\* SpecConc: the background goroutine of NewHTTPStaticServer rebuilding the
\* index while request goroutines search it and change the tree. s.indexes is a
\* slice header of several words, stored (line 524) and loaded (line 530)
\* without synchronisation: the stores and the loads of its words are steps of
\* their own, in either order.

ConcTree == ( <<>> :> DirNode ) @@ ( <<nf>> :> FileNode )

InitConc ==
    /\ fs = ConcTree
    /\ ghs = ( <<>> :> Sidecar("ok", Given(TRUE), Given(TRUE), AbsentList, AbsentList) )
    /\ sUpload = FALSE
    /\ InitIdle

\* makeIndex, lines 508-523: the walk into the local slice
MkWalk ==
    LET w == Walk
    IN  /\ mk.pc = "sleep"
        /\ mk.builds < MaxBuilds
        /\ heap' = Append(heap, w.idx)
        /\ mk' = [pc |-> "store", local |-> [ptr |-> Len(heap) + 1, len |-> Len(w.idx)],
                  err |-> w.err, builds |-> mk.builds + 1]
        /\ UNCHANGED << fsVars, indexes, rd, walkOld, cacheVars, dp, resp >>

\* makeIndex, line 524: the store of the pointer word, first or last
MkStorePtr ==
    /\ mk.pc \in {"store", "lenStored"}
    /\ indexes' = [indexes EXCEPT !.ptr = mk.local.ptr]
    /\ mk' = [mk EXCEPT !.pc = IF mk.pc = "store" THEN "ptrStored" ELSE "sleep"]
    /\ UNCHANGED << fsVars, heap, rd, walkOld, cacheVars, dp, resp >>

\* makeIndex, line 524: the store of the length word, first or last
MkStoreLen ==
    /\ mk.pc \in {"store", "ptrStored"}
    /\ indexes' = [indexes EXCEPT !.len = mk.local.len]
    /\ mk' = [mk EXCEPT !.pc = IF mk.pc = "store" THEN "lenStored" ELSE "sleep"]
    /\ UNCHANGED << fsVars, heap, rd, walkOld, cacheVars, dp, resp >>

\* a request reaches findIndex(text)
RdCall(text) ==
    /\ rd.pc \in {"idle", "done", "fault"}
    /\ rd' = [RdIdle EXCEPT !.pc = "load", !.text = text]
    /\ UNCHANGED << fsVars, heap, indexes, mk, walkOld, cacheVars, dp, resp >>

\* findIndex, line 530: the load of the pointer word of s.indexes
RdLoadPtr ==
    /\ rd.pc \in {"load", "lenLoaded"}
    /\ rd' = [rd EXCEPT !.ptr = indexes.ptr,
                        !.pc = IF rd.pc = "load" THEN "ptrLoaded" ELSE "scan"]
    /\ UNCHANGED << fsVars, heap, indexes, mk, walkOld, cacheVars, dp, resp >>

\* findIndex, line 530: the load of the length word of s.indexes
RdLoadLen ==
    /\ rd.pc \in {"load", "ptrLoaded"}
    /\ rd' = [rd EXCEPT !.len = indexes.len,
                        !.pc = IF rd.pc = "load" THEN "lenLoaded" ELSE "scan"]
    /\ UNCHANGED << fsVars, heap, indexes, mk, walkOld, cacheVars, dp, resp >>

\* findIndex, lines 530-551: the loop over the slice the loaded words describe
RdScan ==
    /\ rd.pc = "scan"
    /\ \E junk \in JunkItems :
          LET items == Observed([ptr |-> rd.ptr, len |-> rd.len], junk)
          IN  rd' = [rd EXCEPT !.pc = "done", !.seen = items,
                               !.ret = findIndex(items, rd.text)]
    /\ UNCHANGED << fsVars, heap, indexes, mk, walkOld, cacheVars, dp, resp >>

\* the loaded words describe elements outside the backing array
OutOfArray(h) == h.len > Len(IF h.ptr = 0 THEN <<>> ELSE heap[h.ptr])

\* findIndex, line 530: a read outside the backing array faults, and the
\* request's goroutine panics
RdFault ==
    /\ rd.pc = "scan"
    /\ OutOfArray([ptr |-> rd.ptr, len |-> rd.len])
    /\ rd' = [rd EXCEPT !.pc = "fault"]
    /\ UNCHANGED << fsVars, heap, indexes, mk, walkOld, cacheVars, dp, resp >>

ConcTexts == { << "-", "f" >> }

NextConc ==
    \/ MkWalk
    \/ MkStorePtr
    \/ MkStoreLen
    \/ \E text \in ConcTexts : RdCall(text)
    \/ RdLoadPtr
    \/ RdLoadLen
    \/ RdScan
    \/ RdFault
    \/ HUpload(<<>>, NoUser, ne, TRUE)
    \/ HDelete(<<nf>>, NoUser)

SpecConc == InitConc /\ [][NextConc]_vars

----------------------------------------------------------------------------
\* Claims on SpecConc.

\* the slice of generation g as makeIndex built it (generation 0: the nil slice)
Generation(g) == IF g = 0 THEN <<>> ELSE heap[g]

\* C1: for every interleaving of makeIndex with findIndex, each findIndex call
\* evaluates its query against exactly one completely built index generation:
\* every entry it returns belongs to that generation, and it never sees a
\* partially built index or a mix of two generations.
C1_OneGenerationPerSearch ==
    /\ rd.pc # "fault"
    /\ rd.pc = "done" =>
        \E gen \in 0..Len(heap) :
            /\ rd.seen = Generation(gen)
            /\ rd.ret = findIndex(Generation(gen), rd.text)

\* a search that ran while a build stored s.indexes and saw the new generation whole
C1_Witness ==
    /\ rd.pc = "done"
    /\ mk.pc = "sleep"
    /\ Len(heap) = 2
    /\ rd.ptr = 2
    /\ rd.len = Len(heap[2])
    /\ heap[1] # heap[2]

----------------------------------------------------------------------------
\* SpecCache: canAccess in two request goroutines, statement by statement.
\* net/http serves each request in a goroutine of its own and reCache is a
\* package variable read (line 384) and written (line 387) under no lock.

XSecret == << "x", ".", "s", "e", "c", "r", "e", "t" >>
XTxt == << "x", ".", "t", "x", "t" >>
CacheNames == { XSecret, XTxt }

TableChoices ==
    { << Table(PatSecret, FALSE), Table(PatAll, TRUE) >>,
      << Table(PatBad, FALSE), Table(PatSecret, FALSE) >>,
      << Table(PatBad, FALSE), Table(PatBad, TRUE), Table(PatAll, FALSE) >> }

InitCache ==
    /\ fs = ( <<>> :> DirNode )
    /\ ghs = <<>>
    /\ sUpload = FALSE
    /\ InitIdle

\* where the loop of canAccess goes with table index i
CaAt(c, i) ==
    IF i > Len(c.tables) THEN [c EXCEPT !.pc = "done", !.i = i, !.ret = TRUE]
    ELSE [c EXCEPT !.pc = "lookup", !.i = i]

\* hJSONList, line 471: auth.canAccess(info.Name())
CaCall(p, tables, fileName) ==
    /\ ~crashed
    /\ ca[p].pc \in {"idle", "done"}
    /\ ca' = [ca EXCEPT ![p] = CaAt([CaIdle EXCEPT !.tables = tables,
                                                  !.fileName = fileName], 1)]
    /\ UNCHANGED << fsVars, indexVars, reCache, compiles, crashed, dp, resp >>

\* line 384: pattern, ok := reCache[table.Regex]
CaLookup(p) ==
    LET regex == ca[p].tables[ca[p].i].Regex
    IN  /\ ~crashed
        /\ ca[p].pc = "lookup"
        /\ ca' = [ca EXCEPT ![p] =
                     IF regex \in DOMAIN reCache
                     THEN [ca[p] EXCEPT !.pc = "test", !.pattern = reCache[regex]]
                     ELSE [ca[p] EXCEPT !.pc = "compile"]]
        /\ UNCHANGED << fsVars, indexVars, reCache, compiles, crashed, dp, resp >>

\* line 386: pattern, _ = regexp.Compile(table.Regex)
CaCompile(p) ==
    LET regex == ca[p].tables[ca[p].i].Regex
    IN  /\ ~crashed
        /\ ca[p].pc = "compile"
        /\ ca' = [ca EXCEPT ![p] = [ca[p] EXCEPT !.pc = "insert",
                                                !.pattern = regexpCompile(regex)]]
        /\ compiles' = [compiles EXCEPT ![regex] = compiles[regex] + 1]
        /\ UNCHANGED << fsVars, indexVars, reCache, crashed, dp, resp >>

\* line 387: reCache[table.Regex] = pattern
CaInsert(p) ==
    LET regex == ca[p].tables[ca[p].i].Regex
    IN  /\ ~crashed
        /\ ca[p].pc = "insert"
        /\ reCache' = [r \in DOMAIN reCache \cup {regex} |->
                          IF r = regex THEN ca[p].pattern ELSE reCache[r]]
        /\ ca' = [ca EXCEPT ![p] = [ca[p] EXCEPT !.pc = "test"]]
        /\ UNCHANGED << fsVars, indexVars, compiles, crashed, dp, resp >>

\* lines 390-395: skip a nil pattern, return on a match, else the next table
CaTest(p) ==
    /\ ~crashed
    /\ ca[p].pc = "test"
    /\ ca' = [ca EXCEPT ![p] =
                 IF ca[p].pattern = "nil" THEN CaAt(ca[p], ca[p].i + 1)
                 ELSE IF MatchString(ca[p].pattern, ca[p].fileName)
                 THEN [ca[p] EXCEPT !.pc = "done", !.ret = ca[p].tables[ca[p].i].Allow]
                 ELSE CaAt(ca[p], ca[p].i + 1)]
    /\ UNCHANGED << fsVars, indexVars, reCache, compiles, crashed, dp, resp >>

\* two goroutines are at the map at once, one of them writing
CacheRace ==
    \E p \in Procs, q \in Procs :
        /\ p # q
        /\ ca[p].pc = "insert"
        /\ ca[q].pc \in {"lookup", "insert"}

\* the runtime finds the map accessed while it is written and stops the process
\* ("fatal error: concurrent map read and map write")
CaFatal ==
    /\ ~crashed
    /\ CacheRace
    /\ crashed' = TRUE
    /\ UNCHANGED << fsVars, indexVars, reCache, compiles, ca, dp, resp >>

NextCache ==
    \/ \E p \in Procs, tables \in TableChoices, fileName \in CacheNames :
          CaCall(p, tables, fileName)
    \/ \E p \in Procs : CaLookup(p)
    \/ \E p \in Procs : CaCompile(p)
    \/ \E p \in Procs : CaInsert(p)
    \/ \E p \in Procs : CaTest(p)
    \/ CaFatal

SpecCache == InitCache /\ [][NextCache]_vars

----------------------------------------------------------------------------
\* Claims on SpecCache.

\* C2: reads and inserts on reCache are synchronized: in no reachable state do
\* two concurrent canAccess invocations access the cache at the same time when
\* at least one of them is inserting an entry.
C2_CacheAccessExclusive == ~CacheRace

\* the tables whose pattern is valid and matches the file name
Deciding(tables, fileName) ==
    {i \in 1..Len(tables) :
        /\ regexpCompile(tables[i].Regex) # "nil"
        /\ MatchString(tables[i].Regex, fileName)}

\* C5: canAccess returns the allow flag of the first rule, in order, whose
\* pattern is valid and matches the file name, and true when none does; a rule
\* with an invalid pattern never matches, never aborts the evaluation, and is
\* compiled at most once.
C5_FirstMatchCompileOnce ==
    /\ \A p \in Procs :
          ca[p].pc = "done" =>
              LET hits == Deciding(ca[p].tables, ca[p].fileName)
              IN  ca[p].ret = IF hits = {} THEN TRUE
                              ELSE ca[p].tables[CHOOSE i \in hits :
                                                   \A j \in hits : i <= j].Allow
    /\ \A pattern \in Patterns :
          regexpCompile(pattern) = "nil" => compiles[pattern] <= 1
    /\ ~crashed

\* the same, of the calls that run with no other call in canAccess
C5_AloneFirstMatch ==
    \A p \in Procs :
        (ca[p].pc = "done" /\ \A q \in Procs \ {p} : ca[q].pc = "idle") =>
            LET hits == Deciding(ca[p].tables, ca[p].fileName)
            IN  /\ ca[p].ret = IF hits = {} THEN TRUE
                               ELSE ca[p].tables[CHOOSE i \in hits :
                                                    \A j \in hits : i <= j].Allow
                /\ \A pattern \in Patterns : compiles[pattern] <= 1
                /\ ~crashed

====
